---- MODULE Spec2Model ----
(***************************************************************************)
(* Model of the request handlers of core/views.py and of the prediction    *)
(* chains of core/llm_utils.py.                                            *)
(*                                                                         *)
(* One request is in flight at a time (handlers share no state).  Strings  *)
(* are sequences of one-character strings, so that strip / lower /         *)
(* replace / "in" are computed character by character.  Confidence is a    *)
(* probability in thousandths (1000 stands for 1.0).                       *)
(***************************************************************************)
EXTENDS Integers, Sequences, FiniteSets, TLC

\* ---------------------------------------------------------------- bounds
MaxSegments == 2
MaxChunks == 2
MaxTokens == 16

\* ------------------------------------------------------ program constants
SchemaCount == 15
MaxRetries == 1
ConfZero == 0
ConfOne == 1000

\* ------------------------------------------------------- string helpers
UpperCase ==
  <<"A","B","C","D","E","F","G","H","I","J","K","L","M","N","O","P","Q","R","S","T","U","V","W","X","Y","Z">>

LowerCase ==
  <<"a","b","c","d","e","f","g","h","i","j","k","l","m","n","o","p","q","r","s","t","u","v","w","x","y","z">>

Whitespace == {" ", "\t", "\n"}

\* str.lower() on one character
LowerChar(c) ==
  IF \E i \in 1..Len(UpperCase) : UpperCase[i] = c
    THEN LowerCase[CHOOSE i \in 1..Len(UpperCase) : UpperCase[i] = c]
    ELSE c

\* str.upper() on one character (used only to build inputs)
UpperChar(c) ==
  IF \E i \in 1..Len(LowerCase) : LowerCase[i] = c
    THEN UpperCase[CHOOSE i \in 1..Len(LowerCase) : LowerCase[i] = c]
    ELSE c

\* str.lower()
Lower(s) == [i \in 1..Len(s) |-> LowerChar(s[i])]

\* str.strip(): drop leading and trailing whitespace
Strip(s) ==
  LET keep == {i \in 1..Len(s) : s[i] \notin Whitespace}
  IN  IF keep = {} THEN <<>>
      ELSE LET lo == CHOOSE i \in keep : \A j \in keep : i <= j
               hi == CHOOSE i \in keep : \A j \in keep : j <= i
           IN  SubSeq(s, lo, hi)

\* str.replace(c, ""): drop every occurrence of the character c
RemoveChar(s, c) == SelectSeq(s, LAMBDA x : x # c)

\* sub in s
Contains(s, sub) ==
  \E i \in 0..(Len(s) - Len(sub)) : SubSeq(s, i + 1, i + Len(sub)) = sub

\* every cased character is lowercase (the TokenList description's "lowercase")
IsLowercase(s) == \A i \in 1..Len(s) : LowerChar(s[i]) = s[i]

\* ----------------------------------------------- transcription heuristics
HALLUCINATIONS ==
    { <<"t","h","a","n","k"," ","y","o","u"," ","f","o","r"," ","w","a","t","c","h","i","n","g">>,
      <<"t","h","a","n","k","s"," ","f","o","r"," ","w","a","t","c","h","i","n","g">>,
      <<"s","u","b","s","c","r","i","b","e">>,
      <<"a","m","a","r","a",".","o","r","g">>,
      <<"m","b","c">>,
      <<"y","o","u">>,
      <<".">>,
      <<"b","y","e">>,
      <<"s","u","b","t","i","t","l","e","s"," ","b","y">>,
      <<"c","o","p","y","r","i","g","h","t">>,
      <<"a","l","l"," ","r","i","g","h","t","s"," ","r","e","s","e","r","v","e","d">> }

ThankYouForWatching == <<"t","h","a","n","k"," ","y","o","u"," ","f","o","r"," ","w","a","t","c","h","i","n","g">>

ThanksForWatching == <<"t","h","a","n","k","s"," ","f","o","r"," ","w","a","t","c","h","i","n","g">>

\* clean_text = text.strip().lower()
CleanText(text) == Lower(Strip(text))

\* clean_text_check = clean_text.replace(".", "").replace("!", "").replace("?", "")
CleanTextCheck(text) == RemoveChar(RemoveChar(RemoveChar(CleanText(text), "."), "!"), "?")

\* the condition of the hallucination filter
IsHallucination(text) ==
  \/ CleanTextCheck(text) \in HALLUCINATIONS
  \/ Contains(CleanText(text), ThankYouForWatching)
  \/ Contains(CleanText(text), ThanksForWatching)

\* text after the filter
FilterText(text) == IF IsHallucination(text) THEN <<>> ELSE text

\* confidence after the filter
FilterConfidence(text, conf) == IF IsHallucination(text) THEN ConfZero ELSE conf

\* the override without its 'and text' guard
OverrideConfidenceAnyText(text, conf) ==
  IF conf = ConfZero THEN ConfOne ELSE conf

\* if confidence == 0.0 and text: confidence = 1.0
OverrideConfidence(text, conf) ==
  IF conf = ConfZero /\ text # <<>> THEN ConfOne ELSE conf

\* A segment of the service reply.  style "obj": attribute access works
\* (pydantic model); style "dict": only subscript access works.  has: the
\* avg_logprob attribute / key is present.  num: its value is a number
\* (otherwise null).  v: the log-probability.
LogProbs == {0, -1, -1000, 1000}

SegmentKinds ==
  [style : {"obj", "dict"}, has : {TRUE}, num : {TRUE}, v : LogProbs]
    \cup [style : {"obj", "dict"}, has : {TRUE}, num : {FALSE}, v : {0}]
    \cup [style : {"obj", "dict"}, has : {FALSE}, num : {FALSE}, v : {0}]

\* math.exp(x) in thousandths: exp(0) = 1.0, exp(-1) = 0.3678..., exp(-1000)
\* underflows to 0.0; exp(1000) raises OverflowError and exp(None) TypeError.
ExpOutcome(s) ==
  IF ~s.num THEN "TypeError"
  ELSE IF s.v >= 1000 THEN "OverflowError"
  ELSE "ok"

ExpValue(s) ==
  CASE s.v = 0 -> 1000
    [] s.v = -1 -> 368
    [] OTHER -> 0

\* math.exp(s.avg_logprob) for one segment
AttrOutcome(s) ==
  IF s.style = "obj" /\ s.has THEN ExpOutcome(s) ELSE "AttributeError"

\* math.exp(s['avg_logprob']) for one segment
ItemOutcome(s) ==
  IF s.style = "dict"
    THEN IF s.has THEN ExpOutcome(s) ELSE "KeyError"
    ELSE "TypeError"

\* outcome of a list comprehension: the exception of the first element that
\* raises, "ok" when none does
RECURSIVE FirstOutcome(_, _)
FirstOutcome(outs, i) ==
  IF i > Len(outs) THEN "ok"
  ELSE IF outs[i] # "ok" THEN outs[i]
  ELSE FirstOutcome(outs, i + 1)

RECURSIVE SumProbs(_, _)
SumProbs(segs, i) ==
  IF i > Len(segs) THEN 0 ELSE ExpValue(segs[i]) + SumProbs(segs, i + 1)

\* sum(probs) / len(probs)
Mean(segs) == SumProbs(segs, 1) \div Len(segs)

\* which exceptions the first try block hands to the dictionary fallback
CaughtByAttrHandler(exc) == exc = "AttributeError"

\* The confidence block: [raised |-> an exception left the block, conf |-> value]
ComputeConfidence(hasSegments, segs) ==
  IF ~hasSegments \/ segs = <<>> THEN [raised |-> FALSE, conf |-> ConfZero]
  ELSE LET first == FirstOutcome([i \in 1..Len(segs) |-> AttrOutcome(segs[i])], 1)
           second == FirstOutcome([i \in 1..Len(segs) |-> ItemOutcome(segs[i])], 1)
       IN  IF first = "ok" THEN [raised |-> FALSE, conf |-> Mean(segs)]
           ELSE IF ~CaughtByAttrHandler(first) THEN [raised |-> TRUE, conf |-> ConfZero]
           ELSE IF second = "ok" THEN [raised |-> FALSE, conf |-> Mean(segs)]
           ELSE [raised |-> FALSE, conf |-> ConfZero]

\* ------------------------------------------------------- prediction chain
\* A model reply: not JSON at all, JSON without a 'tokens' list, or JSON
\* whose 'tokens' is a list of strings.
LowerWord == <<"t","e","a">>

UpperWord == <<"T","e","a">>

\* token lists of 0..MaxTokens words with at most one non-lowercase word
TokenLists ==
  {[i \in 1..n |-> IF i = k THEN UpperWord ELSE LowerWord] : n \in 0..MaxTokens, k \in 0..MaxTokens}

NoReply == [kind |-> "none", tokens |-> <<>>]

Replies ==
  {[kind |-> "not_json", tokens |-> <<>>], [kind |-> "no_tokens", tokens |-> <<>>]}
    \cup [kind : {"tokens"}, tokens : TokenLists]

\* PydanticOutputParser(pydantic_object=TokenList).parse succeeds: the reply
\* is a JSON object whose 'tokens' is a List[str] (no length, no case check)
ParseOk(reply) == reply.kind = "tokens"

\* a repair loop that is off by one
CanRepairOffByOne(n) == n <= MaxRetries

\* OutputFixingParser.parse: after a parse failure, is another repair allowed?
CanRepair(n) == n < MaxRetries

\* the except branch of predict_next_token_chain
NextTokenFallback == <<>>

\* the except branch of predict_word_completion_chain
CompletionFallback(p) == <<p>>

\* ------------------------------------------------------------- requests
Handlers == {"transcribe_audio", "predict_next_token", "predict_word_completion"}

Methods == {"POST", "GET"}

Capitalize(s) == IF s = <<>> THEN s ELSE <<UpperChar(s[1])>> \o SubSeq(s, 2, Len(s))

Decorate(h) ==
  {h, Capitalize(h), <<" ">> \o h \o <<"\n">>, h \o <<"!">>, h \o <<".">>, Capitalize(h) \o <<"?">>}

FreeTexts ==
  { <<>>, <<" ">>,
    <<"i"," ","w","a","n","t"," ","t","h","e"," ","g","a","r","d","e","n"," ","t","o","o","l">>,
    <<"o","k"," ","t","h","a","n","k","s"," ","f","o","r"," ","w","a","t","c","h","i","n","g"," ","i","t">>,
    <<"h","e","l","l","o">> }

\* transcripts the speech-to-text service may return
Texts == FreeTexts \cup UNION {Decorate(h) : h \in HALLUCINATIONS}

SegmentLists == UNION {[1..k -> SegmentKinds] : k \in 0..MaxSegments}

Sentences == {<<>>, <<"i"," ","w","a","n","t">>}

Partials == {<<>>, <<"c","o">>, <<"H","o">>}

NoBody == [kind |-> "none", hasSentence |-> FALSE, sentence |-> <<>>, hasPartial |-> FALSE, partial |-> <<>>]

\* request.body: not JSON, JSON that is not an object, or a JSON object
Bodies ==
  {[kind |-> "malformed", hasSentence |-> FALSE, sentence |-> <<>>, hasPartial |-> FALSE, partial |-> <<>>],
   [kind |-> "non_object", hasSentence |-> FALSE, sentence |-> <<>>, hasPartial |-> FALSE, partial |-> <<>>]}
    \cup {[kind |-> "object", hasSentence |-> hs, sentence |-> s, hasPartial |-> hp, partial |-> p] :
            hs \in BOOLEAN, s \in Sentences, hp \in BOOLEAN, p \in Partials}

\* data.get(key, '')
DataGet(has, val) == IF has THEN val ELSE <<>>

NoRequest == [method |-> "GET", hasAudio |-> FALSE, nchunks |-> 0, body |-> NoBody]

NoResponse == [kind |-> "none", status |-> 0, key |-> "none", tokens |-> <<>>, text |-> <<>>, confidence |-> 0]

\* JsonResponse({'error': ...}, status=code)
ErrorResponse(code) == [kind |-> "json", status |-> code, key |-> "error", tokens |-> <<>>, text |-> <<>>, confidence |-> 0]

\* JsonResponse({'tokens': tokens})
TokensResponse(toks) == [kind |-> "json", status |-> 200, key |-> "tokens", tokens |-> toks, text |-> <<>>, confidence |-> 0]

\* JsonResponse({'text': text, 'confidence': confidence})
TextResponse(t, c) == [kind |-> "json", status |-> 200, key |-> "text", tokens |-> <<>>, text |-> t, confidence |-> c]

\* an exception left the view function
RaisedResponse == [kind |-> "raised", status |-> 500, key |-> "none", tokens |-> <<>>, text |-> <<>>, confidence |-> 0]

NoReturn == [kind |-> "none", tokens |-> <<>>]

Returned(toks) == [kind |-> "returned", tokens |-> toks]

Raised == [kind |-> "raised", tokens |-> <<>>]

\* a view without the empty-partial check
ShortCircuitNever(p) == FALSE

\* if not partial: return JsonResponse({'tokens': []})
ShortCircuit(p) == p = <<>>

\* ---------------------------------------------------------------- state
VARIABLES handler, pc, req, tempCreated, tempExists, written, text, transcript, hasSegments,
          segments, confidence, sentence, partial, llmBuilt, llmCalls, retries,
          completion, chainFailed, chainRet, response

vars == <<handler, pc, req, tempCreated, tempExists, written, text, transcript, hasSegments,
          segments, confidence, sentence, partial, llmBuilt, llmCalls, retries,
          completion, chainFailed, chainRet, response>>

transVars == <<tempCreated, tempExists, written, text, transcript, hasSegments, segments, confidence>>

predVars == <<sentence, partial, llmBuilt, llmCalls, retries, completion, chainFailed, chainRet>>

Init ==
  /\ handler = "none"
  /\ pc = "idle"
  /\ req = NoRequest
  /\ tempCreated = FALSE
  /\ tempExists = FALSE
  /\ written = 0
  /\ text = <<>>
  /\ transcript = <<>>
  /\ hasSegments = FALSE
  /\ segments = <<>>
  /\ confidence = ConfZero
  /\ sentence = <<>>
  /\ partial = <<>>
  /\ llmBuilt = 0
  /\ llmCalls = 0
  /\ retries = 0
  /\ completion = NoReply
  /\ chainFailed = FALSE
  /\ chainRet = NoReturn
  /\ response = NoResponse

\* A request arrives at one of the three routes; every request starts from
\* fresh per-request state (handlers are stateless).
Request ==
  /\ pc \in {"idle", "done"}
  /\ \E h \in Handlers, m \in Methods :
       /\ handler' = h
       /\ \/ /\ h = "transcribe_audio"
             /\ \E a \in BOOLEAN, n \in 0..MaxChunks :
                  req' = [method |-> m, hasAudio |-> a, nchunks |-> IF a THEN n ELSE 0, body |-> NoBody]
          \/ /\ h # "transcribe_audio"
             /\ \E b \in Bodies :
                  req' = [method |-> m, hasAudio |-> FALSE, nchunks |-> 0, body |-> b]
  /\ pc' = "entry"
  /\ tempCreated' = FALSE
  /\ tempExists' = FALSE
  /\ written' = 0
  /\ text' = <<>>
  /\ transcript' = <<>>
  /\ hasSegments' = FALSE
  /\ segments' = <<>>
  /\ confidence' = ConfZero
  /\ sentence' = <<>>
  /\ partial' = <<>>
  /\ llmBuilt' = 0
  /\ llmCalls' = 0
  /\ retries' = 0
  /\ completion' = NoReply
  /\ chainFailed' = FALSE
  /\ chainRet' = NoReturn
  /\ response' = NoResponse

\* ------------------------------------------------------ transcribe_audio
\* method / FILES checks, then NamedTemporaryFile(delete=False) creates the file
TranscribeEntry ==
  /\ handler = "transcribe_audio" /\ pc = "entry"
  /\ IF req.method # "POST"
       THEN /\ response' = ErrorResponse(405) /\ pc' = "done"
            /\ UNCHANGED <<tempCreated, tempExists>>
       ELSE IF ~req.hasAudio
         THEN /\ response' = ErrorResponse(400) /\ pc' = "done"
              /\ UNCHANGED <<tempCreated, tempExists>>
         ELSE /\ tempCreated' = TRUE /\ tempExists' = TRUE
              /\ pc' = "write" /\ UNCHANGED response
  /\ UNCHANGED <<handler, req, written, text, transcript, hasSegments, segments, confidence>>
  /\ UNCHANGED predVars

\* temp_audio.write(chunk) for the next chunk: it succeeds, or it raises
\* (the with block is outside the try: the exception leaves the view and
\* the file, created with delete=False, stays)
WriteChunk ==
  /\ handler = "transcribe_audio" /\ pc = "write"
  /\ written < req.nchunks
  /\ \E ok \in BOOLEAN :
       IF ok
         THEN /\ written' = written + 1 /\ UNCHANGED <<pc, response>>
         ELSE /\ response' = RaisedResponse /\ pc' = "done" /\ UNCHANGED written
  /\ UNCHANGED <<handler, req, tempCreated, tempExists, text, transcript, hasSegments, segments, confidence>>
  /\ UNCHANGED predVars

\* all chunks written: the with block closes the file, the try block starts
WriteDone ==
  /\ handler = "transcribe_audio" /\ pc = "write"
  /\ written = req.nchunks
  /\ pc' = "call"
  /\ UNCHANGED <<handler, req, response>>
  /\ UNCHANGED transVars
  /\ UNCHANGED predVars

\* client.audio.transcriptions.create(...): a service error, or a reply
\* (transcript is transcription.text, text the local variable of line 49)
Transcribe ==
  /\ handler = "transcribe_audio" /\ pc = "call"
  /\ \/ /\ pc' = "except"
        /\ UNCHANGED <<text, transcript, hasSegments, segments>>
     \/ /\ \E t \in Texts, hs \in BOOLEAN, sg \in SegmentLists :
             /\ transcript' = t
             /\ text' = t
             /\ hasSegments' = hs
             /\ segments' = IF hs THEN sg ELSE <<>>
        /\ pc' = "confidence"
  /\ UNCHANGED <<handler, req, tempCreated, tempExists, written, confidence, response>>
  /\ UNCHANGED predVars

\* the confidence block (lines 55-67)
Confidence ==
  /\ handler = "transcribe_audio" /\ pc = "confidence"
  /\ LET r == ComputeConfidence(hasSegments, segments)
     IN  IF r.raised
           THEN /\ pc' = "except" /\ UNCHANGED confidence
           ELSE /\ pc' = "filter" /\ confidence' = r.conf
  /\ UNCHANGED <<handler, req, tempCreated, tempExists, written, text, transcript, hasSegments, segments, response>>
  /\ UNCHANGED predVars

\* hallucination filter, confidence override and the return statement
Filter ==
  /\ handler = "transcribe_audio" /\ pc = "filter"
  /\ LET t == FilterText(text)
         c == OverrideConfidence(t, FilterConfidence(text, confidence))
     IN  /\ text' = t
         /\ confidence' = c
         /\ response' = TextResponse(t, c)
  /\ pc' = "finally"
  /\ UNCHANGED <<handler, req, tempCreated, tempExists, written, transcript, hasSegments, segments>>
  /\ UNCHANGED predVars

\* except Exception as e: return JsonResponse({'error': str(e)}, status=500)
TranscribeExcept ==
  /\ handler = "transcribe_audio" /\ pc = "except"
  /\ response' = ErrorResponse(500)
  /\ pc' = "finally"
  /\ UNCHANGED <<handler, req>>
  /\ UNCHANGED transVars
  /\ UNCHANGED predVars

\* finally: if os.path.exists(temp_audio_path): os.remove(temp_audio_path)
Finally ==
  /\ handler = "transcribe_audio" /\ pc = "finally"
  /\ tempExists' = FALSE
  /\ pc' = "done"
  /\ UNCHANGED <<handler, req, tempCreated, written, text, transcript, hasSegments, segments, confidence, response>>
  /\ UNCHANGED predVars

\* ---------------------------------------------------- predict_next_token
\* json.loads(request.body), data.get('sentence', ''), then the chain is called
NextTokenEntry ==
  /\ handler = "predict_next_token" /\ pc = "entry"
  /\ IF req.method # "POST"
       THEN /\ response' = ErrorResponse(405) /\ pc' = "done" /\ UNCHANGED sentence
       ELSE IF req.body.kind # "object"
         THEN /\ response' = ErrorResponse(500) /\ pc' = "done" /\ UNCHANGED sentence
         ELSE /\ sentence' = DataGet(req.body.hasSentence, req.body.sentence)
              /\ pc' = "get_llm" /\ UNCHANGED response
  /\ UNCHANGED <<handler, req, partial, llmBuilt, llmCalls, retries, completion, chainFailed, chainRet>>
  /\ UNCHANGED transVars

\* ----------------------------------------------- predict_word_completion
\* as above, plus the empty-partial short circuit before the chain is called
CompletionEntry ==
  /\ handler = "predict_word_completion" /\ pc = "entry"
  /\ IF req.method # "POST"
       THEN /\ response' = ErrorResponse(405) /\ pc' = "done"
            /\ UNCHANGED <<sentence, partial>>
       ELSE IF req.body.kind # "object"
         THEN /\ response' = ErrorResponse(500) /\ pc' = "done"
              /\ UNCHANGED <<sentence, partial>>
         ELSE /\ sentence' = DataGet(req.body.hasSentence, req.body.sentence)
              /\ partial' = DataGet(req.body.hasPartial, req.body.partial)
              /\ IF ShortCircuit(partial')
                   THEN /\ response' = TokensResponse(<<>>) /\ pc' = "done"
                   ELSE /\ pc' = "get_llm" /\ UNCHANGED response
  /\ UNCHANGED <<handler, req, llmBuilt, llmCalls, retries, completion, chainFailed, chainRet>>
  /\ UNCHANGED transVars

\* -------------------- predict_next_token_chain / predict_word_completion_chain
\* llm = get_llm(); fixing_parser = get_parser(llm); prompt = ...   These run
\* before the try block: when ChatOpenAI(...) raises (no usable API key, bad
\* settings) the exception leaves the chain function.
GetLlm ==
  /\ handler \in {"predict_next_token", "predict_word_completion"} /\ pc = "get_llm"
  /\ \E ok \in BOOLEAN :
       IF ok
         THEN /\ llmBuilt' = llmBuilt + 1 /\ pc' = "invoke"
              /\ UNCHANGED <<chainFailed, chainRet>>
         ELSE /\ chainFailed' = TRUE /\ chainRet' = Raised /\ pc' = "view_return"
              /\ UNCHANGED llmBuilt
  /\ UNCHANGED <<handler, req, sentence, partial, llmCalls, retries, completion, response>>
  /\ UNCHANGED transVars

\* chain.invoke: prompt | llm : one model round trip, which raises or replies
Invoke ==
  /\ handler \in {"predict_next_token", "predict_word_completion"} /\ pc = "invoke"
  /\ llmCalls' = llmCalls + 1
  /\ \/ /\ chainFailed' = TRUE /\ pc' = "chain_except" /\ UNCHANGED completion
     \/ /\ \E r \in Replies : completion' = r
        /\ pc' = "parse" /\ UNCHANGED chainFailed
  /\ UNCHANGED <<handler, req, sentence, partial, llmBuilt, retries, chainRet, response>>
  /\ UNCHANGED transVars

\* chain.invoke: | fixing_parser : parse; on failure repair while allowed
Parse ==
  /\ handler \in {"predict_next_token", "predict_word_completion"} /\ pc = "parse"
  /\ IF ParseOk(completion)
       THEN /\ chainRet' = Returned(completion.tokens) /\ pc' = "view_return"
            /\ UNCHANGED <<retries, chainFailed>>
       ELSE IF CanRepair(retries)
         THEN /\ retries' = retries + 1 /\ pc' = "fix"
              /\ UNCHANGED <<chainFailed, chainRet>>
         ELSE /\ chainFailed' = TRUE /\ pc' = "chain_except"
              /\ UNCHANGED <<retries, chainRet>>
  /\ UNCHANGED <<handler, req, sentence, partial, llmBuilt, llmCalls, completion, response>>
  /\ UNCHANGED transVars

\* the corrective round trip of the fixing parser: raises or replies
Fix ==
  /\ handler \in {"predict_next_token", "predict_word_completion"} /\ pc = "fix"
  /\ llmCalls' = llmCalls + 1
  /\ \/ /\ chainFailed' = TRUE /\ pc' = "chain_except" /\ UNCHANGED completion
     \/ /\ \E r \in Replies : completion' = r
        /\ pc' = "parse" /\ UNCHANGED chainFailed
  /\ UNCHANGED <<handler, req, sentence, partial, llmBuilt, retries, chainRet, response>>
  /\ UNCHANGED transVars

\* except Exception as e: log and return the fallback
ChainExcept ==
  /\ handler \in {"predict_next_token", "predict_word_completion"} /\ pc = "chain_except"
  /\ chainRet' = IF handler = "predict_next_token"
                   THEN Returned(NextTokenFallback)
                   ELSE Returned(CompletionFallback(partial))
  /\ pc' = "view_return"
  /\ UNCHANGED <<handler, req, sentence, partial, llmBuilt, llmCalls, retries, completion, chainFailed, response>>
  /\ UNCHANGED transVars

\* back in the view: return JsonResponse({'tokens': tokens}), or the view's
\* except branch when the chain function raised
ViewReturn ==
  /\ handler \in {"predict_next_token", "predict_word_completion"} /\ pc = "view_return"
  /\ response' = IF chainRet.kind = "returned"
                   THEN TokensResponse(chainRet.tokens)
                   ELSE ErrorResponse(500)
  /\ pc' = "done"
  /\ UNCHANGED <<handler, req>>
  /\ UNCHANGED predVars
  /\ UNCHANGED transVars

Next ==
  \/ Request
  \/ TranscribeEntry
  \/ WriteChunk
  \/ WriteDone
  \/ Transcribe
  \/ Confidence
  \/ Filter
  \/ TranscribeExcept
  \/ Finally
  \/ NextTokenEntry
  \/ CompletionEntry
  \/ GetLlm
  \/ Invoke
  \/ Parse
  \/ Fix
  \/ ChainExcept
  \/ ViewReturn

Spec == Init /\ [][Next]_vars

TypeOK ==
  /\ handler \in Handlers \cup {"none"}
  /\ pc \in {"idle", "entry", "write", "call", "confidence", "filter", "except", "finally",
             "get_llm", "invoke", "parse", "fix", "chain_except", "view_return", "done"}
  /\ tempCreated \in BOOLEAN /\ tempExists \in BOOLEAN
  /\ written \in 0..MaxChunks
  /\ confidence \in 0..ConfOne
  /\ llmBuilt \in 0..1
  /\ retries \in 0..MaxRetries

\* ================================================================ claims
PredictionHandlers == {"predict_next_token", "predict_word_completion"}

\* C1: predict_next_token_chain never raises past its boundary: for a
\* non-empty context, once the call has ended after any failure, it has
\* returned the empty sequence.
C1_NextTokenNeverRaises ==
  (handler = "predict_next_token" /\ sentence # <<>> /\ chainRet.kind # "none" /\ chainFailed)
    => chainRet = Returned(<<>>)

\* C2: for a non-empty partial predict_word_completion_chain returns the
\* parsed token list or [partial], and after any failure exactly [partial],
\* never raising.
C2_CompletionFallsBackToPartial ==
  (handler = "predict_word_completion" /\ partial # <<>> /\ chainRet.kind # "none")
    => /\ chainRet.kind = "returned"
       /\ chainFailed => chainRet.tokens = <<partial>>
       /\ ~chainFailed => (ParseOk(completion) /\ chainRet.tokens = completion.tokens)

\* C3: in every terminal state of a transcription request that created a
\* temporary file, the file no longer exists.
C3_TempFileRemoved ==
  (handler = "transcribe_audio" /\ pc = "done" /\ tempCreated) => ~tempExists

\* C4: whatever the model replies, predict_next_token_chain returns at most
\* 15 strings, all lowercase, or the empty sequence.
C4_ReturnedTokensConform ==
  (handler = "predict_next_token" /\ chainRet.kind = "returned")
    => /\ Len(chainRet.tokens) <= SchemaCount
       /\ \A i \in 1..Len(chainRet.tokens) : IsLowercase(chainRet.tokens[i])

\* C5: a prediction call makes at most two model invocations; the second one
\* (the repair) happens only after the first reply failed schema parsing; a
\* reply still malformed after the repair ends the call with the fallback.
C5_RepairBudgetOne ==
  /\ llmCalls <= 2
  /\ retries <= 1
  /\ pc = "fix" => (llmCalls = 1 /\ ~ParseOk(completion))
  /\ llmCalls = 2 => retries = 1
  /\ (pc \in {"view_return", "done"} /\ llmCalls = 2 /\ ~ParseOk(completion))
       => chainRet = Returned(IF handler = "predict_next_token" THEN <<>> ELSE <<partial>>)

\* C5 witness: the repaired reply was still malformed and the call ended
\* with the fallback after exactly two invocations
C5_Witness ==
  /\ pc = "done" /\ handler = "predict_word_completion"
  /\ llmCalls = 2 /\ retries = 1
  /\ completion.kind = "not_json"
  /\ response = TokensResponse(<<partial>>)

\* the transcript is exactly a denylist entry, up to surrounding whitespace,
\* letter case and the characters . ! ?
IsDenylistEntry(t) ==
  \E h \in HALLUCINATIONS : CleanText(t) = h \/ CleanTextCheck(t) = h

\* C6: a transcript that is exactly a denylist entry, or contains "thank you
\* for watching" / "thanks for watching", is answered with text "" and
\* confidence 0.0.
C6_DenylistSuppressed ==
  (handler = "transcribe_audio" /\ response.key = "text"
     /\ \/ IsDenylistEntry(transcript)
        \/ Contains(CleanText(transcript), ThankYouForWatching)
        \/ Contains(CleanText(transcript), ThanksForWatching))
    => (response.text = <<>> /\ response.confidence = 0)

\* C7: in a {text, confidence} response, confidence 0 implies empty text; a
\* non-empty text without computable confidence (no segments) carries 1.0;
\* a transcript discarded by the filter carries exactly 0.0.
C7_ZeroConfidenceOnlyForEmptyText ==
  (handler = "transcribe_audio" /\ response.key = "text")
    => /\ response.confidence = 0 => response.text = <<>>
       /\ (response.text # <<>> /\ (~hasSegments \/ segments = <<>>)) => response.confidence = 1000
       /\ IsHallucination(transcript) => (response.text = <<>> /\ response.confidence = 0)

\* C7 witness: a filtered transcript whose segments gave confidence 1.0 has
\* been answered
C7_Witness ==
  /\ handler = "transcribe_audio" /\ pc = "done" /\ response.key = "text"
  /\ transcript = <<"Y","o","u","?">>
  /\ segments = <<[style |-> "obj", has |-> TRUE, num |-> TRUE, v |-> 0]>>
  /\ response.text = <<>> /\ response.confidence = 0

\* neither the attribute form nor the dictionary form of the mean can be
\* computed for these segments
MeanFails(segs) ==
  /\ \E i \in 1..Len(segs) : AttrOutcome(segs[i]) # "ok"
  /\ \E i \in 1..Len(segs) : ItemOutcome(segs[i]) # "ok"

\* C8: when segments are present and the mean cannot be computed, the
\* request still ends with a {text, confidence} response.
C8_ConfidenceFailureIsNotAnError ==
  (handler = "transcribe_audio" /\ pc = "done" /\ hasSegments /\ segments # <<>>
     /\ MeanFails(segments))
    => response.key = "text"

\* C9: every POST with a readable body handled by predict_next_token or
\* predict_word_completion ends with a {tokens} response, never {error}/500.
C9_PredictionNeverHardError ==
  (handler \in PredictionHandlers /\ pc = "done" /\ req.method = "POST"
     /\ req.body.kind = "object")
    => (response.key = "tokens" /\ response.status = 200)

\* the request is a predict_word_completion POST whose partial is empty or absent
EmptyPartialPost ==
  /\ handler = "predict_word_completion" /\ req.method = "POST"
  /\ req.body.kind = "object"
  /\ (~req.body.hasPartial \/ req.body.partial = <<>>)

\* C10: a predict_word_completion POST with an empty or absent partial is
\* answered {tokens: []} without constructing a model client or invoking
\* the model.
C10_EmptyPartialShortCircuits ==
  EmptyPartialPost
    => /\ llmBuilt = 0 /\ llmCalls = 0
       /\ pc \in {"entry", "done"}
       /\ pc = "done" => response = TokensResponse(<<>>)

\* C10 witness: such a request (partial absent) has been answered
C10_Witness ==
  /\ EmptyPartialPost /\ ~req.body.hasPartial /\ req.body.sentence # <<>>
  /\ pc = "done" /\ response.key = "tokens"

====
